---- MODULE Spec2Model ----
(***************************************************************************)
(* A model of ReteGraph (retentioneering/core/rete_graph/rete_graph.py):   *)
(* the session state behind the interactive graph (node list, edge list,   *)
(* manual layout, display settings) and the handlers the transport server  *)
(* calls: save-nodelist, recalculate, save-layout, save-graph-settings,    *)
(* together with plot_graph's full payload build.                          *)
(*                                                                         *)
(* A DataFrame is a record [columns, rows]; a node row is a record         *)
(* [label, cells] where label is the row's index label and cells maps      *)
(* column names to values.  A missing string cell is None; a numeric cell  *)
(* is NaN (missing) or Num(n).  A quotient a / b is the pair <<a, b>>.     *)
(***************************************************************************)
EXTENDS Integers, Sequences, FiniteSets, TLC

\* ------------------------------------------------------------------ bounds
MaxLog == 3
MaxBatch == 2
MaxSteps == 2

\* ------------------------------------------------------- values and names
None == "None"
NaN == <<>>
Num(n) == <<n>>

EventNames == {"A", "B"}
SyntheticName == "G"
NodeNames == EventNames \cup {SyntheticName}

event_col == "event"
source_col == "source"
target_col == "target"
weight_col == "weight"
nodelist_cols == <<"number_of_events">>
nodelist_default_col == "number_of_events"
custom_cols == <<>>
UnknownMetric == "bogus"

Range(s) == {s[i] : i \in DOMAIN s}

Abs(n) == IF n < 0 THEN 0 - n ELSE n

SetMax(S) == CHOOSE m \in S : \A n \in S : n <= m

SetMin(S) == CHOOSE m \in S : \A n \in S : m <= n

SeqsUpTo(S, n) == UNION {[1..k -> S] : k \in 0..n}

\* ------------------------------------------- the Explorer's constructions
\* One node row per distinct event name of the log, with its number of events.
CountOf(log, name) == Cardinality({i \in DOMAIN log : log[i] = name})

create_nodelist(log) ==
    [name \in Range(log) |-> CountOf(log, name)]

\* One edge row per distinct pair of consecutive events, with its count.
create_edgelist(log) ==
    LET pairs == {<<log[i], log[i + 1]>> : i \in 1..(Len(log) - 1)}
        count(p) == Cardinality({i \in 1..(Len(log) - 1) :
                                    <<log[i], log[i + 1]>> = p})
    IN [columns |-> <<source_col, target_col, weight_col>>,
        rows |-> {[c \in {source_col, target_col, weight_col} |->
                      CASE c = source_col -> p[1]
                        [] c = target_col -> p[2]
                        [] OTHER -> count(p)] : p \in pairs}]

\* The node list a session is constructed with: the Explorer's rows, every
\* node active, ungrouped, labelled 0..n-1 in order of first occurrence.
RECURSIVE FirstOccurrences(_)
FirstOccurrences(log) ==
    IF log = <<>> THEN <<>>
    ELSE LET rest == FirstOccurrences(SubSeq(log, 1, Len(log) - 1))
             last == log[Len(log)]
         IN IF last \in Range(rest) THEN rest ELSE Append(rest, last)

NodeColumns ==
    <<event_col, "number_of_events", "active", "alias", "parent", "changed_name">>

InitialNodelist(log) ==
    LET names == FirstOccurrences(log)
        counts == create_nodelist(log)
    IN [columns |-> NodeColumns,
        rows |-> [i \in 1..Len(names) |->
                    [label |-> i - 1,
                     cells |-> [c \in Range(NodeColumns) |->
                        CASE c = event_col -> names[i]
                          [] c = "number_of_events" -> Num(counts[names[i]])
                          [] c = "active" -> TRUE
                          [] c = "alias" -> None
                          [] c = "parent" -> None
                          [] OTHER -> None]]]]

\* ------------------------------------------------------ DataFrame access
Names(nl) == {nl.rows[i].cells[event_col] : i \in DOMAIN nl.rows}

Labels(nl) == {nl.rows[i].label : i \in DOMAIN nl.rows}

\* The positions of the rows whose event name is `name`, and the first.
Matching(rows, name) == {i \in DOMAIN rows : rows[i].cells[event_col] = name}

First(S) == SetMin(S)

\* nodelist.at[label of row pos, col] = v; a column the frame does not have
\* is added (DataFrame._set_value falls back to .loc, which enlarges), and
\* the other rows get NaN in it.
SetCell(nl, pos, col, v) ==
    IF col \in Range(nl.columns)
    THEN [nl EXCEPT !.rows[pos].cells[col] = v]
    ELSE [columns |-> Append(nl.columns, col),
          rows |-> [i \in DOMAIN nl.rows |->
                      [label |-> nl.rows[i].label,
                       cells |-> nl.rows[i].cells @@
                                 (col :> IF i = pos THEN v ELSE NaN)]]]

\* nodelist.loc[label] = cells: the row labelled `label` is overwritten when
\* there is one, and a new row is appended otherwise.
SetRow(nl, label, cells) ==
    IF label \in Labels(nl)
    THEN [nl EXCEPT !.rows = [i \in DOMAIN nl.rows |->
                                IF nl.rows[i].label = label
                                THEN [label |-> label, cells |-> cells]
                                ELSE nl.rows[i]]]
    ELSE [nl EXCEPT !.rows = Append(nl.rows, [label |-> label, cells |-> cells])]

\* -------------------------------------------------- _on_nodelist_updated
RECURSIVE SetDegreeCells(_, _, _, _)
SetDegreeCells(nl, pos, degree, todo) ==
    IF todo = {} THEN nl
    ELSE LET col == CHOOSE c \in todo : TRUE
         IN SetDegreeCells(SetCell(nl, pos, col, degree[col]), pos, degree,
                           todo \ {col})

UpdateFound(nl, pos, node) ==
    LET a == SetCell(nl, pos, "active", node.active)
        b == SetCell(a, pos, "parent", node.parent)
        c == IF node.changed_name # <<>>
             THEN SetCell(b, pos, "changed_name", node.changed_name[1])
             ELSE b
    IN SetDegreeCells(c, pos, node.degree, DOMAIN node.degree)

NewRow(columns, node) ==
    [key \in Range(columns) |->
        CASE key = event_col -> node.name
          [] key = "active" -> node.active
          [] key = "alias" -> node.alias
          [] key = "parent" -> node.parent
          [] key = "changed_name" ->
                IF node.changed_name # <<>> THEN node.changed_name[1] ELSE None
          [] key \in DOMAIN node.degree -> node.degree[key]
          [] OTHER -> NaN]

InsertNode(nl, node) == SetRow(nl, node.index, NewRow(nl.columns, node))

\* Mutant: the edit is inserted without looking its name up first.
ApplyEdit_unchecked(nl, node) == InsertNode(nl, node)

ApplyEdit(nl, node) ==
    LET indexes == Matching(nl.rows, node.name)
    IN IF indexes # {}
       THEN UpdateFound(nl, First(indexes), node)
       ELSE InsertNode(nl, node)

RECURSIVE on_nodelist_updated(_, _)
on_nodelist_updated(nl, nodes) ==
    IF nodes = <<>> THEN nl
    ELSE on_nodelist_updated(ApplyEdit(nl, Head(nodes)), Tail(nodes))

\* ----------------------------------------------------------- _recalculate
\* Mutant: the events of hidden nodes are not removed from the log.
ActiveNames_unfiltered(nl) == Names(nl)

ActiveNames(nl) ==
    {nl.rows[i].cells[event_col] :
        i \in {j \in DOMAIN nl.rows : nl.rows[j].cells["active"] = TRUE}}

IsGrouped(row) == row.cells["parent"] # None /\ row.cells["active"] = TRUE

Grouped(nl) == SelectSeq(nl.rows, IsGrouped)

\* Mutant: the event of a grouped node is not relabelled to its parent.
replace_grouped_events_kept(grouped, event_name) == event_name

replace_grouped_events(grouped, event_name) ==
    LET mathced == Matching(grouped, event_name)
    IN IF mathced # {}
       THEN grouped[First(mathced)].cells["parent"]
       ELSE event_name

updated_clickstream(nl, log) ==
    LET IsActive(e) == e \in ActiveNames(nl)
        kept == SelectSeq(log, IsActive)
    IN [i \in DOMAIN kept |-> replace_grouped_events(Grouped(nl), kept[i])]

RECURSIVE CopyMetrics(_, _, _)
CopyMetrics(cells, value, cols) ==
    IF cols = <<>> THEN cells
    ELSE CopyMetrics([cells EXCEPT ![Head(cols)] = value], value, Tail(cols))

\* Mutant: a row without a recomputed match has its metrics reset.
update_node_after_recalc_reset(recalculated_nodelist, row) ==
    LET node_name == row.cells[event_col]
        value == IF node_name \in DOMAIN recalculated_nodelist
                 THEN Num(recalculated_nodelist[node_name])
                 ELSE Num(0)
    IN [row EXCEPT !.cells = CopyMetrics(row.cells, value, nodelist_cols)]

\* Mutant: the recomputed metrics are added to the prior ones.
update_node_after_recalc_added(recalculated_nodelist, row) ==
    LET node_name == row.cells[event_col]
        prior == row.cells[nodelist_default_col]
        value == IF prior = NaN
                 THEN Num(recalculated_nodelist[node_name])
                 ELSE Num(prior[1] + recalculated_nodelist[node_name])
    IN IF node_name \in DOMAIN recalculated_nodelist
       THEN [row EXCEPT !.cells = CopyMetrics(row.cells, value, nodelist_cols)]
       ELSE row

update_node_after_recalc(recalculated_nodelist, row) ==
    LET node_name == row.cells[event_col]
    IN IF node_name \in DOMAIN recalculated_nodelist
       THEN [row EXCEPT !.cells = CopyMetrics(row.cells,
                                   Num(recalculated_nodelist[node_name]),
                                   nodelist_cols)]
       ELSE row

recalculate(nl, log) ==
    LET updated == updated_clickstream(nl, log)
        recalculated_nodelist == create_nodelist(updated)
    IN [nodelist |-> [nl EXCEPT !.rows = [i \in DOMAIN nl.rows |->
                        update_node_after_recalc(recalculated_nodelist,
                                                 nl.rows[i])]],
        edgelist |-> create_edgelist(updated)]

\* ------------------------------------------------- _prepare_nodes / _edges
\* The numeric values of a column, NaN cells skipped as Series.max skips them.
ColumnValues(nl, col) ==
    {nl.rows[i].cells[col][1] :
        i \in {j \in DOMAIN nl.rows : nl.rows[j].cells[col] # NaN}}

\* abs(value) / abs(max_degree) * 30 + 4 as a quotient; a zero denominator
\* is a value that is not finite (NaN or inf).
Degree(value, max_degree) ==
    IF value = NaN \/ max_degree = NaN THEN <<0, 0>>
    ELSE <<Abs(value[1]) * 30 + 4 * Abs(max_degree[1]), Abs(max_degree[1])>>

ColumnMax(nl, col) ==
    IF ColumnValues(nl, col) = {} THEN NaN ELSE Num(SetMax(ColumnValues(nl, col)))

\* enumerate(set(names)): a set's iteration order is not specified, so the
\* index of each name is any numbering 0..n-1 of the names.
Numberings(names) ==
    {f \in [names -> 0..(Cardinality(names) - 1)] :
        \A a, b \in names : a # b => f[a] # f[b]}

\* node_params and pos are mappings; None and the empty mapping act alike.
NodeType(node_params, node_name) ==
    IF node_name \in DOMAIN node_params
    THEN node_params[node_name] \o "_node"
    ELSE "suit_node"

prepare_nodes(nl, node_params, pos, idx) ==
    [node_name \in Names(nl) |->
        LET row == nl.rows[First(Matching(nl.rows, node_name))]
            placed == node_name \in DOMAIN pos
        IN [index |-> idx[node_name],
            name |-> node_name,
            degree |-> [c \in Range(nodelist_cols) |->
                          [degree |-> Degree(row.cells[c], ColumnMax(nl, c)),
                           source |-> row.cells[c]]],
            type |-> NodeType(node_params, node_name),
            active |-> row.cells["active"],
            alias |-> row.cells["alias"],
            parent |-> row.cells["parent"],
            changed_name |-> None,
            x |-> IF placed THEN pos[node_name][1] ELSE NaN,
            y |-> IF placed THEN pos[node_name][2] ELSE NaN]]

\* Whether _prepare_nodes divides by a zero maximum or takes abs() of a
\* missing value: with an object column this raises (ZeroDivisionError,
\* TypeError), with a numeric column it yields NaN or inf.
Degenerate(nl) ==
    \E c \in Range(nodelist_cols) :
        \/ ColumnMax(nl, c) = Num(0)
        \/ \E i \in DOMAIN nl.rows : nl.rows[i].cells[c] = NaN

ZeroScale(nl) ==
    nl.rows # <<>> /\ \E c \in Range(nodelist_cols) : ColumnMax(nl, c) = Num(0)

MaxAbsWeight(el) == SetMax({Abs(r[weight_col]) : r \in el.rows})

\* edgelist['weight_norm'] = edgelist[weight_col] / max(|weight|), in place.
with_weight_norm(el) ==
    [columns |-> IF "weight_norm" \in Range(el.columns) THEN el.columns
                 ELSE Append(el.columns, "weight_norm"),
     rows |-> {[c \in DOMAIN r \cup {"weight_norm"} |->
                   IF c = "weight_norm"
                   THEN <<r[weight_col], MaxAbsWeight(el)>>
                   ELSE r[c]] : r \in el.rows}]

\* edgelist["type"] = type_of[row] for every row.
with_type(el, type_of) ==
    [columns |-> IF "type" \in Range(el.columns) THEN el.columns
                 ELSE Append(el.columns, "type"),
     rows |-> {[c \in DOMAIN r \cup {"type"} |->
                   IF c = "type" THEN type_of[r] ELSE r[c]] : r \in el.rows}]

\* Mutant: a name that is not in nodes_set gets some node instead of None.
Lookup_defaulted(nodes_set, name) ==
    IF name \in DOMAIN nodes_set THEN {nodes_set[name]}
    ELSE {nodes_set[CHOOSE n \in DOMAIN nodes_set : TRUE]}

\* nodes_set.get(name)
Lookup(nodes_set, name) ==
    IF name \in DOMAIN nodes_set THEN {nodes_set[name]} ELSE {}

\* One link per edge row whose source and target are both in nodes_set.
prepare_edges(el, nodes_set) ==
    LET rows == with_weight_norm(el).rows
    IN {[sourceIndex |-> source_node.index,
         targetIndex |-> target_node.index,
         weights |-> [c \in {nodelist_default_col} |->
                        [weight_norm |-> r["weight_norm"],
                         weight |-> r[weight_col]]],
         type |-> r["type"]] :
        <<r, source_node, target_node>> \in
            UNION {{<<e, sn, tn>> : sn \in Lookup(nodes_set, e[source_col]),
                                    tn \in Lookup(nodes_set, e[target_col])} :
                   e \in rows}}

\* ----------------------------------------------------------------- state
VARIABLES
    clickstream,     \* rete.clickstream: the raw log, a sequence of event names
    nodelist,        \* self.nodelist
    edgelist,        \* self.edgelist
    layout,          \* self.layout: NoLayout, or rows [name, x, y]
    graph_settings,  \* self.graph_settings
    updates,         \* self.updates: the last batch of node edits
    graph_updates,   \* self.graph_updates: the last batch of layout edits
    result,          \* what the last call returned (or that it raised)
    op,              \* the last call
    steps,           \* calls so far
    before           \* history: the session state the last call started from

vars == <<clickstream, nodelist, edgelist, layout, graph_settings, updates,
          graph_updates, result, op, steps, before>>

Snapshot == [nodelist |-> nodelist, edgelist |-> edgelist, layout |-> layout,
             graph_settings |-> graph_settings]

\* self.layout is None, or a DataFrame of rows [name, x, y].
NoLayout == [is_none |-> TRUE, rows |-> <<>>]
Layout(rows) == [is_none |-> FALSE, rows |-> rows]
\* An attribute that no handler has set yet, or the batch it was last set to.
Unset == [is_set |-> FALSE, batch |-> <<>>]
Batch(b) == [is_set |-> TRUE, batch |-> b]
NoResult == [status |-> "none", nodes |-> {}, links |-> {}]
Raised == [status |-> "error", nodes |-> {}, links |-> {}]

\* ---------------------------------------------------------------- inputs
Logs == SeqsUpTo(EventNames, MaxLog) \ {<<>>}

NoDegree == <<>>
ZeroDegree == nodelist_default_col :> Num(0)
UnknownDegree == UnknownMetric :> Num(1)
FreshIndex == 7

Edit(i, n, a, p, d) ==
    [index |-> i, name |-> n, active |-> a, parent |-> p, alias |-> None,
     changed_name |-> <<>>, degree |-> d]

\* What the client sends in the grouping sessions: a log node grouped under
\* the other log node or under a node the node list does not know, a log
\* node hidden (with its parent kept or cleared), a synthetic node created.
GroupingEdits ==
    {Edit(FreshIndex, "A", TRUE, "B", NoDegree),
     Edit(FreshIndex, "B", TRUE, "A", NoDegree),
     Edit(FreshIndex, "B", TRUE, SyntheticName, NoDegree),
     Edit(FreshIndex, "A", FALSE, "B", NoDegree),
     Edit(FreshIndex, "B", FALSE, None, NoDegree),
     Edit(FreshIndex, SyntheticName, TRUE, None, NoDegree)}

Batches == SeqsUpTo(GroupingEdits, MaxBatch)

\* What the client sends in the node-editing sessions: a synthetic node
\* created at a used or at a free index, with a metric the node list declares
\* or does not declare, and a log node hidden with its metric zeroed.
NodeEdits ==
    {Edit(0, SyntheticName, TRUE, None, UnknownDegree),
     Edit(FreshIndex, SyntheticName, TRUE, None, ZeroDegree),
     Edit(FreshIndex, "A", FALSE, None, ZeroDegree),
     Edit(FreshIndex, "B", FALSE, None, ZeroDegree),
     Edit(FreshIndex, "A", TRUE, None, UnknownDegree)}

NodeEditBatches == SeqsUpTo(NodeEdits, MaxBatch)

LayoutEdits ==
    {Edit(FreshIndex, "B", FALSE, None, NoDegree),
     Edit(FreshIndex, "B", TRUE, SyntheticName, NoDegree),
     Edit(FreshIndex, SyntheticName, TRUE, None, NoDegree)}

LayoutEditBatches == SeqsUpTo(LayoutEdits, MaxBatch)

\* plot_graph's defaults, the positions spring_layout may give a node, and
\* the targets argument (empty: no target events configured).
Width == 960

Height == 900

RawPositions == {<<0, 0>>, <<1, 2>>}

Targets == {<<>>, "A" :> "source"}

LayoutNodes == {[name |-> "A", x |-> 10, y |-> 20], [name |-> "B", x |-> 30, y |-> 40]}
LayoutBatches == SeqsUpTo(LayoutNodes, MaxBatch)

ConstructorLayouts == {NoLayout, Layout(<<[name |-> "B", x |-> 5, y |-> 6]>>)}

Settings == {<<>>, "show_weights" :> TRUE}

\* ------------------------------------------------------------------ Init
Constructed(layouts) ==
    /\ clickstream \in Logs
    /\ nodelist = InitialNodelist(clickstream)
    /\ edgelist = create_edgelist(clickstream)
    /\ layout \in layouts
    /\ graph_settings = <<>>
    /\ updates = Unset
    /\ graph_updates = Unset
    /\ result = NoResult
    /\ op = "init"
    /\ steps = 0
    /\ before = Snapshot

Init == Constructed({NoLayout})

\* -------------------------------------------------------------- handlers
SuitType(r) == "suit"

\* self.layout = DataFrame(columns=["name", "x", "y"]), then one row per
\* layout node, appended at label shape[0].
RECURSIVE layout_rows(_, _)
layout_rows(rows, layout_nodes) ==
    IF layout_nodes = <<>> THEN rows
    ELSE layout_rows(Append(rows, [name |-> Head(layout_nodes).name,
                                   x |-> Head(layout_nodes).x,
                                   y |-> Head(layout_nodes).y]),
                     Tail(layout_nodes))

\* Mutant: the batch is appended to the rows the layout already has.
on_layout_request_merged(old_layout, layout_nodes) ==
    Layout(layout_rows(old_layout.rows, layout_nodes))

on_layout_request(old_layout, layout_nodes) ==
    Layout(layout_rows(<<>>, layout_nodes))

OnNodelistUpdated(nodes) ==
    /\ steps < MaxSteps
    /\ updates' = Batch(nodes)
    /\ nodelist' = on_nodelist_updated(nodelist, nodes)
    /\ result' = NoResult
    /\ op' = "save-nodelist"
    /\ steps' = steps + 1
    /\ before' = Snapshot
    /\ UNCHANGED <<clickstream, edgelist, layout, graph_settings, graph_updates>>

\* _on_recalc_request up to the payload build: the edits applied, the lists
\* recomputed and merged, the new edge list typed 'suit'.
recalc_lists(nl, log, nodes) ==
    LET rc == recalculate(on_nodelist_updated(nl, nodes), log)
    IN [nodelist |-> rc.nodelist, edgelist |-> with_type(rc.edgelist,
                          [r \in rc.edgelist.rows |-> SuitType(r)])]

\* The payload build that follows, given whether the division in
\* _prepare_nodes raises and the numbering enumerate() gives the names: what
\* the handler leaves in the session and what it returns.
recalc_payload(lists, raises, idx) ==
    LET nodes_set == prepare_nodes(lists.nodelist, <<>>, <<>>, idx)
    IN IF raises
       THEN [nodelist |-> lists.nodelist, edgelist |-> lists.edgelist,
             result |-> Raised]
       ELSE [nodelist |-> lists.nodelist,
             edgelist |-> with_weight_norm(lists.edgelist),
             result |-> [status |-> "ok",
                         nodes |-> Range(nodes_set),
                         links |-> prepare_edges(lists.edgelist, nodes_set)]]

\* The ways the payload build can go: with an object column the division of
\* a degenerate node list raises, with a numeric one it does not.
PayloadOutcomes(nl) ==
    {[raises |-> FALSE, idx |-> f] : f \in Numberings(Names(nl))}
    \cup (IF Degenerate(nl)
          THEN {[raises |-> TRUE,
                 idx |-> CHOOSE f \in Numberings(Names(nl)) : TRUE]}
          ELSE {})

OnRecalcRequest(nodes) ==
    /\ steps < MaxSteps
    /\ updates' = Batch(nodes)
    /\ LET lists == recalc_lists(nodelist, clickstream, nodes)
       IN \E o \in PayloadOutcomes(lists.nodelist) :
            LET out == recalc_payload(lists, o.raises, o.idx)
            IN /\ nodelist' = out.nodelist
               /\ edgelist' = out.edgelist
               /\ result' = out.result
    /\ op' = "recalculate"
    /\ steps' = steps + 1
    /\ before' = Snapshot
    /\ UNCHANGED <<clickstream, layout, graph_settings, graph_updates>>

OnLayoutRequest(layout_nodes) ==
    /\ steps < MaxSteps
    /\ graph_updates' = Batch(layout_nodes)
    /\ layout' = on_layout_request(layout, layout_nodes)
    /\ result' = NoResult
    /\ op' = "save-layout"
    /\ steps' = steps + 1
    /\ before' = Snapshot
    /\ UNCHANGED <<clickstream, nodelist, edgelist, graph_settings, updates>>

OnGraphSettingsRequest(settings) ==
    /\ steps < MaxSteps
    /\ graph_settings' = settings
    /\ result' = NoResult
    /\ op' = "save-graph-settings"
    /\ steps' = steps + 1
    /\ before' = Snapshot
    /\ UNCHANGED <<clickstream, nodelist, edgelist, layout, updates, graph_updates>>

\* ------------------------------------------------------------ plot_graph
\* _make_node_params: the targets given, with the colours renamed.
make_node_params(targets) ==
    [k \in DOMAIN targets |->
        CASE targets[k] = "red" -> "bad_target"
          [] targets[k] = "green" -> "nice_target"
          [] OTHER -> targets[k]]

\* The edge type of _make_template_data:
\* get(source) if get(source) == 'source' else (get(target) or 'suit').
TemplateType(node_params, r) ==
    IF r[source_col] \in DOMAIN node_params
          /\ node_params[r[source_col]] = "source"
    THEN "source"
    ELSE IF r[target_col] \in DOMAIN node_params
         THEN node_params[r[target_col]]
         ELSE "suit"

EndpointsOf(el) ==
    {r[source_col] : r \in el.rows} \cup {r[target_col] : r \in el.rows}

\* (v - min) / (max - min) * span + offset as a quotient <<num, den>>; a
\* zero extent divides numpy floats 0.0 / 0.0, which is nan.
Rescaled(v, lo, hi, span, offset) ==
    IF hi = lo THEN NaN
    ELSE <<(v - lo) * span + offset * (hi - lo), hi - lo>>

\* _calc_layout, given the positions spring_layout returns for the edge
\* endpoints (the nodes of the graph built from the edge list).
calc_layout(el, pos_new, width, height) ==
    LET xs == {pos_new[i][1] : i \in DOMAIN pos_new}
        ys == {pos_new[i][2] : i \in DOMAIN pos_new}
    IN [i \in DOMAIN pos_new |->
          <<Rescaled(pos_new[i][1], SetMin(xs), SetMax(xs), width - 150, 75),
            Rescaled(pos_new[i][2], SetMin(ys), SetMax(ys), height - 100, 50)>>]

MatchedLayout(lay, node_name) ==
    {i \in DOMAIN lay.rows : lay.rows[i].name = node_name}

\* _use_layout: the names of `position` that the layout has get the stored
\* position.
use_layout(lay, position) ==
    IF lay.is_none THEN position
    ELSE [node_name \in DOMAIN position |->
            LET matched == MatchedLayout(lay, node_name)
            IN IF matched = {} THEN position[node_name]
               ELSE <<Num(lay.rows[First(matched)].x),
                      Num(lay.rows[First(matched)].y)>>]

\* min([]) of an empty graph raises, and so does .item() of more than one
\* matching layout row.
LayoutRaises(el, lay) ==
    \/ el.rows = {}
    \/ ~lay.is_none /\ \E n \in EndpointsOf(el) :
                           Cardinality(MatchedLayout(lay, n)) > 1

make_template_data(nl, el, lay, node_params, pos_new, idx, width, height) ==
    LET typed == with_type(el, [r \in el.rows |-> TemplateType(node_params, r)])
        pos == use_layout(lay, calc_layout(typed, pos_new, width, height))
        nodes_set == prepare_nodes(nl, node_params, pos, idx)
    IN [status |-> "ok",
        nodes |-> Range(nodes_set),
        links |-> prepare_edges(typed, nodes_set)]

PlotGraph(targets, width, height) ==
    /\ steps < MaxSteps
    /\ \E pos_new \in [EndpointsOf(edgelist) -> RawPositions],
          o \in PayloadOutcomes(nodelist) :
            result' = IF LayoutRaises(edgelist, layout) \/ o.raises
                      THEN Raised
                      ELSE make_template_data(nodelist, edgelist, layout,
                                              make_node_params(targets),
                                              pos_new, o.idx, width, height)
    /\ op' = "plot"
    /\ steps' = steps + 1
    /\ before' = Snapshot
    /\ UNCHANGED <<clickstream, nodelist, edgelist, layout, graph_settings,
                   updates, graph_updates>>

Handlers(batches) ==
    \/ \E nodes \in batches : OnNodelistUpdated(nodes)
    \/ \E nodes \in batches : OnRecalcRequest(nodes)
    \/ \E layout_nodes \in LayoutBatches : OnLayoutRequest(layout_nodes)
    \/ \E settings \in Settings : OnGraphSettingsRequest(settings)

\* The grouping sessions.
Next == Handlers(Batches)

Spec == Init /\ [][Next]_vars

\* The node-editing sessions.
NextNodeEdits == Handlers(NodeEditBatches)

SpecNodeEdits == Init /\ [][NextNodeEdits]_vars

NextLayout ==
    \/ Handlers(LayoutEditBatches)
    \/ \E targets \in Targets : PlotGraph(targets, Width, Height)

SpecLayout == Constructed(ConstructorLayouts) /\ [][NextLayout]_vars

\* ---------------------------------------------- what the claims talk about
RowNamed(name) ==
    nodelist.rows[CHOOSE i \in DOMAIN nodelist.rows :
                    nodelist.rows[i].cells[event_col] = name]

IsNode(name) == name \in Names(nodelist)

NodeActive(name) == IsNode(name) /\ RowNamed(name).cells["active"] = TRUE

ParentOf(name) == RowNamed(name).cells["parent"]

\* a is an active node whose parent is set to b.
GroupedUnder(a, b) == NodeActive(a) /\ b # None /\ ParentOf(a) = b

\* Some active node names a as its parent.
NamedAsParent(a) == \E g \in Names(nodelist) : GroupedUnder(g, a)

EdgePairs == {<<r[source_col], r[target_col]>> : r \in edgelist.rows}

Endpoints == {p[1] : p \in EdgePairs} \cup {p[2] : p \in EdgePairs}

\* The log without the events of hidden or unknown nodes, and the node each
\* surviving event is counted for: its parent when it is grouped, else itself.
Surviving == SelectSeq(clickstream, NodeActive)

AttributedTo(e) ==
    IF NodeActive(e) /\ ParentOf(e) # None THEN ParentOf(e) ELSE e

Transitions == 1..(Len(Surviving) - 1)

\* Every transition of the surviving log that involves an event of a is an
\* edge with b in a's place.
TransitionsMoved(a, b) ==
    \A i \in Transitions :
        /\ Surviving[i] = a =>
              <<b, AttributedTo(Surviving[i + 1])>> \in EdgePairs
        /\ Surviving[i + 1] = a =>
              <<AttributedTo(Surviving[i]), b>> \in EdgePairs

\* The scenario of two nodes: B grouped under A, the log B then A.
TwoNodeScenario ==
    /\ clickstream = <<"B", "A">>
    /\ Names(nodelist) = {"A", "B"}
    /\ NodeActive("A") /\ ParentOf("A") = None
    /\ GroupedUnder("B", "A")

\* C1 as stated: after recalculate, no edge has an active grouped node A as
\* an endpoint and A's transitions are attributed to its parent B, chains
\* A->B->C included; in the two-node scenario the only edge is A->A.
C1_GroupedNodeNeverEndpoint ==
    op = "recalculate" =>
        /\ \A a \in Names(nodelist) : \A b \in NodeNames :
              GroupedUnder(a, b) =>
                  a \notin Endpoints /\ TransitionsMoved(a, b)
        /\ TwoNodeScenario => EdgePairs = {<<"A", "A">>}

\* C1 amended: after recalculate, an active grouped node A that no active
\* node names as its parent is no endpoint of any edge; the transitions of
\* every active grouped node A are attributed to its parent B (one level of
\* relabelling: B is used even when B has a parent itself); in the two-node
\* scenario the only edge is A->A.
C1_GroupedNodeSingleLevel ==
    op = "recalculate" =>
        /\ \A a \in Names(nodelist) : \A b \in NodeNames :
              GroupedUnder(a, b) =>
                  /\ ~NamedAsParent(a) => a \notin Endpoints
                  /\ TransitionsMoved(a, b)
        /\ TwoNodeScenario => EdgePairs = {<<"A", "A">>}

\* A chain A->B->G was recalculated: A's events are counted for B.
C1_Witness ==
    /\ op = "recalculate"
    /\ GroupedUnder("A", "B") /\ GroupedUnder("B", SyntheticName)
    /\ ~NamedAsParent("A")
    /\ clickstream = <<"A", "A", "B">>
    /\ EdgePairs = {<<"B", "B">>, <<"B", SyntheticName>>}

\* C9 as stated: after recalculate, no edge has a hidden (inactive) node as
\* source or target, whatever the active flags and parents are.
C9_NoInactiveEndpoint ==
    op = "recalculate" =>
        \A n \in Endpoints : ~(IsNode(n) /\ ~NodeActive(n))

\* C9 amended: after recalculate, an edge has a hidden node as source or
\* target only when an active node whose events are in the log names that
\* hidden node as its parent; the hidden node's own events never count.
C9_InactiveOnlyAsParent ==
    op = "recalculate" =>
        \A n \in Endpoints :
            (IsNode(n) /\ ~NodeActive(n)) =>
                \E g \in Range(clickstream) : GroupedUnder(g, n)

\* A hidden node with events in the log was recalculated away, and a hidden
\* node that is the parent of an active node is an endpoint.
C9_Witness ==
    /\ op = "recalculate"
    /\ clickstream = <<"A", "A", "B">>
    /\ GroupedUnder("A", "B")
    /\ IsNode("B") /\ ~NodeActive("B")
    /\ EdgePairs = {<<"B", "B">>}

\* The node list the merge step starts from: the edits of the request
\* applied to the node list the request found.
BeforeMerge == on_nodelist_updated(before.nodelist, updates.batch)

\* The Explorer's lists for the relabelled log, stated from the log.
RecomputedNames == {AttributedTo(Surviving[i]) : i \in DOMAIN Surviving}

RecomputedCount(n) ==
    Cardinality({i \in DOMAIN Surviving : AttributedTo(Surviving[i]) = n})

RecomputedEdges ==
    {<<AttributedTo(Surviving[i]), AttributedTo(Surviving[i + 1]),
       Cardinality({j \in Transitions :
           /\ AttributedTo(Surviving[j]) = AttributedTo(Surviving[i])
           /\ AttributedTo(Surviving[j + 1]) = AttributedTo(Surviving[i + 1])})>> :
        i \in Transitions}

EdgeTriples == {<<r[source_col], r[target_col], r[weight_col]>> : r \in edgelist.rows}

\* C10: the merge step of recalculate keeps the rows of the node list (names,
\* labels, order, columns) and each row's active, parent, alias and
\* changed_name; a row whose name is in the recomputed node list takes the
\* recomputed metric, any other row keeps its prior metric; the edge list is
\* the recomputed one.
C10_MergePreservesRows ==
    op = "recalculate" =>
        /\ nodelist.columns = BeforeMerge.columns
        /\ DOMAIN nodelist.rows = DOMAIN BeforeMerge.rows
        /\ \A i \in DOMAIN nodelist.rows :
              LET new == nodelist.rows[i]
                  old == BeforeMerge.rows[i]
              IN /\ new.label = old.label
                 /\ \A c \in Range(nodelist.columns) \ Range(nodelist_cols) :
                        new.cells[c] = old.cells[c]
                 /\ \A c \in Range(nodelist_cols) :
                        new.cells[c] =
                            IF new.cells[event_col] \in RecomputedNames
                            THEN Num(RecomputedCount(new.cells[event_col]))
                            ELSE old.cells[c]
        /\ EdgeTriples = RecomputedEdges

\* A recalculation that gave the matched row of B a new metric and left the
\* grouped-away row of A its prior one, with an edge list that differs from
\* the one before.
C10_Witness ==
    /\ op = "recalculate"
    /\ clickstream = <<"A", "B", "B">>
    /\ IsNode("B") /\ ~NodeActive("B")
    /\ GroupedUnder("A", "B")
    /\ RecomputedNames = {"B"}
    /\ BeforeMerge.rows[2].cells[nodelist_default_col] = Num(2)
    /\ RowNamed("B").cells[nodelist_default_col] = Num(1)
    /\ RowNamed("A").cells[nodelist_default_col] = Num(1)
    /\ EdgeTriples = {}
    /\ before.edgelist.rows # {}

\* A payload with the node indices left out: nodes without their index,
\* links with the names of their nodes.
NodeOfIndex(payload, i) == CHOOSE n \in payload.nodes : n.index = i

PayloadView(payload) ==
    [status |-> payload.status,
     nodes |-> {[n EXCEPT !.index = 0] : n \in payload.nodes},
     links |-> {[source |-> NodeOfIndex(payload, l.sourceIndex).name,
                 target |-> NodeOfIndex(payload, l.targetIndex).name,
                 weights |-> l.weights,
                 type |-> l.type] : l \in payload.links}]

\* C3: in every state a recalculate leaves, a second recalculate without
\* edits leaves the same node list and edge list and returns the same
\* payload up to the numbering of the nodes.
C3_RecalculateIdempotent ==
    op = "recalculate" =>
        LET lists == recalc_lists(nodelist, clickstream, <<>>)
        IN \A o \in PayloadOutcomes(lists.nodelist) :
              (o.raises <=> result = Raised) =>
                  LET again == recalc_payload(lists, o.raises, o.idx)
                  IN /\ again.nodelist = nodelist
                     /\ again.edgelist = edgelist
                     /\ PayloadView(again.result) = PayloadView(result)

\* A second recalculate in a row, without edits, of a session with a
\* grouped node: it found the lists the first one left.
C3_Witness ==
    /\ op = "recalculate" /\ steps = 2
    /\ updates.batch = <<>>
    /\ before.nodelist = nodelist /\ before.edgelist = edgelist
    /\ GroupedUnder("A", "B")
    /\ result.status = "ok" /\ result.links # {}

IndexOfName(name) == (CHOOSE n \in result.nodes : n.name = name).index

\* C4: in every payload a recalculate or a full build returns, the node indices are pairwise
\* distinct, there is one node per name of the node list, and the links are
\* exactly the edges whose source and target are both names of the node
\* list, each with the indices of the nodes so named; an edge with an
\* endpoint outside the node list gives no link and no error.
C4_LinksReferToNodes ==
    (op \in {"recalculate", "plot"} /\ result.status = "ok") =>
        /\ \A m, n \in result.nodes : m # n => m.index # n.index
        /\ {n.name : n \in result.nodes} = Names(nodelist)
        /\ \A l \in result.links :
              \E m, n \in result.nodes :
                  l.sourceIndex = m.index /\ l.targetIndex = n.index
        /\ {<<l.sourceIndex, l.targetIndex>> : l \in result.links} =
              {<<IndexOfName(p[1]), IndexOfName(p[2])>> :
                  p \in {q \in EdgePairs : IsNode(q[1]) /\ IsNode(q[2])}}
        /\ Cardinality(result.links) =
              Cardinality({q \in EdgePairs : IsNode(q[1]) /\ IsNode(q[2])})

\* A full build returned a payload for an edge list with one edge between
\* nodes of the node list and one edge to a name the node list does not have.
C4_Witness ==
    /\ op = "plot" /\ result.status = "ok"
    /\ ~IsNode(SyntheticName)
    /\ EdgePairs = {<<"A", "A">>, <<"A", SyntheticName>>}
    /\ Cardinality(result.links) = 1

\* C2: a recalculate that meets a zero normalisation scale fails with an
\* error, and leaves the node list and the edge list as the request found
\* them.
C2_ZeroScaleAllOrNothing ==
    (op = "recalculate" /\ ZeroScale(nodelist)) =>
        /\ result = Raised
        /\ nodelist = before.nodelist
        /\ edgelist = before.edgelist

\* C6: no two rows of the node list carry the same name, after any sequence
\* of handler calls.
C6_NamesUnique == Cardinality(Names(nodelist)) = Len(nodelist.rows)

\* A batch that names the new node twice was applied to a node list that
\* did not have it, and the node list now has it.
C6_Witness ==
    /\ updates.is_set /\ Len(updates.batch) = 2
    /\ updates.batch[1].name = SyntheticName
    /\ updates.batch[2].name = SyntheticName
    /\ SyntheticName \notin Names(before.nodelist)
    /\ IsNode(SyntheticName)

\* C7: applying the batch of the last applyNodeEdits once more leaves the
\* node list (rows, columns and values) as it is.
C7_NodeEditsIdempotent ==
    op = "save-nodelist" =>
        on_nodelist_updated(nodelist, updates.batch) = nodelist

StoredPositions(node_name) ==
    {<<layout.rows[i].x, layout.rows[i].y>> : i \in MatchedLayout(layout, node_name)}

\* C5: in the payload of a full build, every node that has a position stored
\* in the layout override has exactly that stored (x, y).
C5_StoredPositionKept ==
    (op = "plot" /\ result.status = "ok") =>
        \A n \in result.nodes :
            \A p \in StoredPositions(n.name) :
                n.x = Num(p[1]) /\ n.y = Num(p[2])

LayoutEntries(batch) ==
    [i \in DOMAIN batch |->
        [name |-> batch[i].name, x |-> batch[i].x, y |-> batch[i].y]]

\* C8: after applyLayoutEdits the layout override has exactly the entries of
\* its batch, and it stays so until the next applyLayoutEdits; every other
\* call leaves the override as it found it.
C8_LayoutReplaced ==
    /\ graph_updates.is_set =>
          layout = Layout(LayoutEntries(graph_updates.batch))
    /\ op \in {"save-nodelist", "save-graph-settings", "recalculate", "plot"} =>
          layout = before.layout

\* applyLayoutEdits replaced a layout that had an entry the batch does not
\* have.
C8_Witness ==
    /\ op = "save-layout"
    /\ ~before.layout.is_none
    /\ before.layout.rows # <<>>
    /\ graph_updates.batch # <<>>
    /\ \E r \in Range(before.layout.rows) : r \notin Range(layout.rows)

\* The node list with every parent that names no node of it unset.
ParentsResolved(nl) ==
    [nl EXCEPT !.rows = [i \in DOMAIN nl.rows |->
        IF nl.rows[i].cells["parent"] \in Names(nl) \cup {None}
        THEN nl.rows[i]
        ELSE [nl.rows[i] EXCEPT !.cells["parent"] = None]]]

\* C11: after recalculate, every edge endpoint names a node of the node
\* list, and the edge list and the node metrics are those a recalculation
\* gives when each parent that names no node is unset.
C11_DanglingParentIgnored ==
    op = "recalculate" =>
        LET unset == recalculate(ParentsResolved(BeforeMerge), clickstream)
        IN /\ \A n \in Endpoints : IsNode(n)
           /\ EdgeTriples =
                 {<<r[source_col], r[target_col], r[weight_col]>> :
                     r \in unset.edgelist.rows}
           /\ \A i \in DOMAIN nodelist.rows : \A c \in Range(nodelist_cols) :
                 nodelist.rows[i].cells[c] = unset.nodelist.rows[i].cells[c]

\* C12: an applyNodeEdits whose one edit names a node the node list does not
\* have leaves every row the node list had, unchanged and in place, and adds
\* exactly one row, the one of the new node, whatever the edit's index.
C12_InsertKeepsRows ==
    (/\ op = "save-nodelist"
     /\ Len(updates.batch) = 1
     /\ updates.batch[1].name \notin Names(before.nodelist)) =>
        /\ nodelist.columns = before.nodelist.columns
        /\ Len(nodelist.rows) = Len(before.nodelist.rows) + 1
        /\ \A i \in DOMAIN before.nodelist.rows :
              nodelist.rows[i] = before.nodelist.rows[i]
        /\ nodelist.rows[Len(nodelist.rows)].cells[event_col] =
              updates.batch[1].name

====
